---------------------------- MODULE Spec2Model ----------------------------
(***************************************************************************)
(* Model of the Razorpay server-to-server relay.                           *)
(*                                                                         *)
(* Four handlers drive the "create order, then create payment" protocol:   *)
(*   server card    app.post('/api/create-payment')          (Express)     *)
(*   server app     app.post('/api/create-applepay-payment') (Express)     *)
(*   api card       api/create-payment.js                    (serverless)  *)
(*   api app        the serverless Apple Pay function                      *)
(* One request is followed from its arrival to its response.  A handler    *)
(* runs without interruption between two awaits, so each action is one     *)
(* such run: the arrival of the request, the return of the order call and  *)
(* the return of the payment call.                                         *)
(*                                                                         *)
(* Text that the code searches with regular expressions (the gateway's     *)
(* HTML documents, URLs, identifiers) is a sequence of atoms.  An atom is  *)
(* a TLA+ string standing for itself: a run of characters of one class     *)
(* (word characters, or other characters) or a single delimiter            *)
(* (the quote, the slash, "=" or ":").  The text is the concatenation of   *)
(* its atoms.  Enumerated values (status strings, error codes, region      *)
(* codes) are plain TLA+ strings.  A JSON object is a function from its    *)
(* keys; a key whose value is undefined is not in the domain, which is     *)
(* what JSON.stringify produces.                                           *)
(***************************************************************************)
EXTENDS Integers, Sequences, FiniteSets, TLC

\* ------------------------------------------------------------------------
\* Bounds of the model
\* ------------------------------------------------------------------------

\* Longest gateway document, in lexemes (see Lexemes).
MaxBody == 3

\* Longest `next` array of a JSON payment response.
MaxNext == 2

\* ------------------------------------------------------------------------
\* Text
\* ------------------------------------------------------------------------

Quote == "\""

\* A run of characters that are neither word characters nor delimiters,
\* long enough (210 characters) for substring(0, 200) to cut it.
Filler == ".................................................................................................................................................................................................................."

\* Atoms made of word characters only: the class [a-zA-Z0-9_].
WordAtoms == {"url", "https", "api", "x", "payments", "pay_2", "authenticate",
              "example", "com", "pay_123", "q", "1", "razorpay_payment_id",
              "pay_9"}

IsWord(a) == a \in WordAtoms

\* The building blocks of the gateway documents the model enumerates.
LexUrl   == <<"url", "=">>
LexQuote == <<Quote>>
LexAuth  == <<"https", ":", "/", "/", "api", ".", "x", "/", "payments", "/",
              "pay_2", "/", "authenticate">>
LexQuery == <<"https", ":", "/", "/", "example", ".", "com", "/", "payments",
              "/", "pay_123", "?", "q", "=", "1">>
LexKey   == <<"razorpay_payment_id", "=", "pay_9">>
LexPad   == <<Filler>>

Lexemes == {LexUrl, LexQuote, LexAuth, LexQuery, LexKey, LexPad}

RECURSIVE Flatten(_)
Flatten(ls) == IF ls = <<>> THEN <<>> ELSE Head(ls) \o Flatten(Tail(ls))

RECURSIVE SeqsUpTo(_, _)
SeqsUpTo(S, n) ==
  IF n = 0 THEN {<<>>}
  ELSE LET shorter == SeqsUpTo(S, n - 1)
       IN  shorter \cup {Append(s, e) : s \in {t \in shorter : Len(t) = n - 1}, e \in S}

\* String.prototype.length: the number of characters of a text.
RECURSIVE CharLen(_)
CharLen(t) == IF t = <<>> THEN 0 ELSE Len(Head(t)) + CharLen(Tail(t))

\* The first k characters of atom a, for 0 < k < Len(a).
CutAtom(a, k) == a \o "[0:" \o ToString(k) \o "]"

\* String.prototype.substring(0, n).
RECURSIVE Substring0(_, _)
Substring0(t, n) ==
  IF t = <<>> \/ n <= 0 THEN <<>>
  ELSE IF Len(Head(t)) <= n
       THEN <<Head(t)>> \o Substring0(Tail(t), n - Len(Head(t)))
       ELSE <<CutAtom(Head(t), n)>>

\* The longest prefix of t whose atoms all satisfy the class test: the
\* greedy match of a character class repeated.
RECURSIVE RunNot(_, _)
RunNot(t, stop) ==
  IF t = <<>> \/ Head(t) = stop THEN <<>> ELSE <<Head(t)>> \o RunNot(Tail(t), stop)

RECURSIVE RunWord(_)
RunWord(t) ==
  IF t = <<>> \/ ~IsWord(Head(t)) THEN <<>> ELSE <<Head(t)>> \o RunWord(Tail(t))

Rest(t, i) == SubSeq(t, i, Len(t))

\* The value JavaScript's null takes in a response body.
JsNull == <<"null">>

\* textResponse.match(/url=([^"]+)/): the capture of the first match, or
\* JsNull when there is none.
MatchUrl(t) ==
  LET hits == {i \in 1..Len(t) : /\ i + 2 <= Len(t)
                                 /\ t[i] = "url" /\ t[i + 1] = "="
                                 /\ t[i + 2] # Quote}
  IN  IF hits = {} THEN JsNull
      ELSE LET i == CHOOSE j \in hits : \A k \in hits : j <= k
           IN  RunNot(Rest(t, i + 2), Quote)

\* authenticationUrl.match(/payments\/([^/]+)/): the capture of the first
\* match, or JsNull.
MatchPaymentsSegment(u) ==
  LET hits == {i \in 1..Len(u) : /\ i + 2 <= Len(u)
                                 /\ u[i] = "payments" /\ u[i + 1] = "/"
                                 /\ u[i + 2] # "/"}
  IN  IF hits = {} THEN JsNull
      ELSE LET i == CHOOSE j \in hits : \A k \in hits : j <= k
           IN  RunNot(Rest(u, i + 2), "/")

\* htmlText.match(/url=([^"]+)"/): as MatchUrl, but the capture must be
\* followed by a quote.
MatchUrlQuoted(t) ==
  LET hits == {i \in 1..Len(t) :
                 /\ i + 2 <= Len(t)
                 /\ t[i] = "url" /\ t[i + 1] = "="
                 /\ t[i + 2] # Quote
                 /\ i + 2 + Len(RunNot(Rest(t, i + 2), Quote)) <= Len(t)}
  IN  IF hits = {} THEN JsNull
      ELSE LET i == CHOOSE j \in hits : \A k \in hits : j <= k
           IN  RunNot(Rest(t, i + 2), Quote)

\* htmlText.match(/razorpay_payment_id[=:]([a-zA-Z0-9_]+)/): the capture
\* of the first match, or JsNull.
MatchPaymentIdKey(t) ==
  LET hits == {i \in 1..Len(t) : /\ i + 2 <= Len(t)
                                 /\ t[i] = "razorpay_payment_id"
                                 /\ t[i + 1] \in {"=", ":"}
                                 /\ IsWord(t[i + 2])}
  IN  IF hits = {} THEN JsNull
      ELSE LET i == CHOOSE j \in hits : \A k \in hits : j <= k
           IN  RunWord(Rest(t, i + 2))

\* ------------------------------------------------------------------------
\* JSON objects
\* ------------------------------------------------------------------------

EmptyObject == [k \in {} |-> TRUE]

Has(o, k) == k \in DOMAIN o

\* The object o restricted to the keys of ks it defines.
Pick(o, ks) == [k \in DOMAIN o \cap ks |-> o[k]]

\* {key: value} when the value is defined, nothing otherwise: a key whose
\* value is undefined does not survive JSON.stringify.
Field(key, o, k) == IF Has(o, k) THEN key :> o[k] ELSE EmptyObject

\* Keys that hold text, and keys that hold numbers, in a request body.
TextKeys == {"contact", "email", "ip", "referer", "user_agent",
             "validationURL", "domain", "displayName"}
NumberKeys == {"amount"}

\* JavaScript truthiness of o[k]: defined, and neither "" nor 0.
Truthy(o, k) ==
  /\ Has(o, k)
  /\ k \in TextKeys => o[k] # <<>>
  /\ k \in NumberKeys => o[k] # 0

\* ------------------------------------------------------------------------
\* Configuration
\* ------------------------------------------------------------------------

KnownCountries == {"MY", "SG", "US", "IN"}

Currency(c) == CASE c = "MY" -> "MYR" [] c = "SG" -> "SGD"
                 [] c = "US" -> "USD" [] c = "IN" -> "INR"

KeyIdOf(c) == "rzp_test_" \o c
KeySecretOf(c) == "secret_" \o c

\* The process environments the model starts from: which of the key
\* variables are set.  In the first two every country is met fully
\* configured, with only its key id, with only its key secret and with
\* neither; in the third no variable is set.
Environments ==
  { [ids |-> {"IN", "SG"}, secrets |-> {"IN", "US"}],
    [ids |-> {"MY", "US"}, secrets |-> {"MY", "SG"}],
    [ids |-> {}, secrets |-> {}] }

\* RAZORPAY_CONFIGS as built at load time from environment e; an unset
\* variable reads as the empty string (falsy either as '' or as undefined).
RAZORPAY_CONFIGS(e) ==
  [c \in KnownCountries |->
     [keyId     |-> IF c \in e.ids THEN KeyIdOf(c) ELSE "",
      keySecret |-> IF c \in e.secrets THEN KeySecretOf(c) ELSE "",
      currency  |-> Currency(c)]]

\* `Basic ${base64(keyId:keySecret)}`: base64 is one-to-one, the header is
\* kept as the pair it encodes.
BasicAuth(keyId, keySecret) == [scheme |-> "Basic", keyId |-> keyId, keySecret |-> keySecret]

\* getAuthHeader(country) of the Express server: the header, or the Error
\* it throws.
getAuthHeader(configs, country) ==
  IF country \notin DOMAIN configs \/ configs[country].keySecret = ""
  THEN [ok |-> FALSE, message |-> "Invalid or unconfigured country: " \o country]
  ELSE [ok |-> TRUE,
        value |-> BasicAuth(configs[country].keyId, configs[country].keySecret)]

\* getConfig(country) of the Express server: the region's entry, or the
\* Error it throws.
getConfig(configs, country) ==
  IF country \notin DOMAIN configs \/ configs[country].keySecret = ""
  THEN [ok |-> FALSE, message |-> "Invalid or unconfigured country: " \o country]
  ELSE [ok |-> TRUE, value |-> configs[country]]

\* The credential check of the serverless functions:
\* !config || !config.keyId || !config.keySecret.
ApiConfigured(configs, body) ==
  /\ Has(body, "country")
  /\ body.country \in DOMAIN configs
  /\ configs[body.country].keyId # ""
  /\ configs[body.country].keySecret # ""

ApiCredentials(configs, country) ==
  BasicAuth(configs[country].keyId, configs[country].keySecret)

\* ------------------------------------------------------------------------
\* Requests
\* ------------------------------------------------------------------------

\* Most required fields a request leaves out at once.
MaxMissing == 1

\* The country codes a caller sends: the configured table's and one more.
Countries == KnownCountries \cup {"FR"}

Year2 == <<"2", "7">>
Year4 == <<"2", "0", "2", "7">>

CardOf(year) ==
  [number |-> <<"4111111111111111">>, name |-> <<"A Payer">>,
   expiry_month |-> <<"1", "2">>, expiry_year |-> year, cvv |-> <<"123">>]

\* The card objects a caller sends: complete with a two- or four-digit
\* year, without its year, without its number.
Cards ==
  { CardOf(Year2), CardOf(Year4),
    Pick(CardOf(Year4), {"number", "name", "expiry_month", "cvv"}),
    Pick(CardOf(Year4), {"name", "expiry_month", "expiry_year", "cvv"}) }

OptionalKeys == {"authentication", "browser", "device_fingerprint", "ip",
                 "referer", "user_agent"}

AllOptional ==
  [authentication    |-> [authentication_channel |-> "browser"],
   browser           |-> [java_enabled |-> FALSE],
   device_fingerprint |-> [fingerprint_payload |-> <<"shield">>],
   ip                |-> <<"203.0.113.7">>,
   referer           |-> <<"https", ":", "/", "/", "shop", ".", "example">>,
   user_agent        |-> <<"Mozilla">>]

\* The optional fields a caller supplies: none of them, all, or some.
OptionalParts ==
  {EmptyObject, AllOptional, Pick(AllOptional, {"device_fingerprint", "ip"})}

\* The contact fields a caller supplies: none, both, both with the contact
\* an empty string.
ContactParts ==
  { EmptyObject,
    [contact |-> <<"+60123">>, email |-> <<"a@b.example">>],
    [contact |-> <<>>, email |-> <<"a@b.example">>] }

CardRequired == {"amount", "currency", "country", "method", "card"}
AppRequired == {"amount", "currency", "country"}

Without(o, missing) == [k \in DOMAIN o \ missing |-> o[k]]

AtMost(S, n) == {m \in SUBSET S : Cardinality(m) <= n}

\* Bodies of POST /api/create-payment: with every required field, for each
\* card and each choice of optional fields; and with required fields left
\* out.
CardBodies ==
  LET Body(c, cd, opt) ==
        [amount |-> 1000, currency |-> "INR", country |-> c,
         method |-> "card", card |-> cd,
         contact |-> <<"+60123">>, email |-> <<"a@b.example">>] @@ opt
  IN  { Body(c, cd, opt) : c \in Countries, cd \in Cards, opt \in OptionalParts }
        \cup { Without(Body(c, CardOf(Year2), EmptyObject), missing) :
                 c \in Countries, missing \in AtMost(CardRequired, MaxMissing) }

\* Bodies of POST /api/create-applepay-payment: with every required field,
\* for each choice of contact fields; and with required fields left out.
AppBodies ==
  LET Body(c, ct) == [amount |-> 1000, currency |-> "INR", country |-> c] @@ ct
  IN  { Body(c, ct) : c \in Countries, ct \in ContactParts }
        \cup { Without(Body(c, EmptyObject), missing) :
                 c \in Countries, missing \in AtMost(AppRequired, MaxMissing) }

\* The HTTP methods a serverless function is invoked with.
HttpMethods == {"POST", "GET", "OPTIONS"}

\* ------------------------------------------------------------------------
\* The gateway
\* ------------------------------------------------------------------------

IsOk(status) == status >= 200 /\ status <= 299

\* A call that does not produce a parsed response: fetch rejects, or the
\* body is not the JSON that response.json() expects.
Failures ==
  { [type |-> "failure", message |-> "request to https://api.razorpay.com failed"],
    [type |-> "failure", message |-> "invalid json response body"] }

OrderId == <<"order_abc">>

GatewayError ==
  [error |-> [code |-> "BAD_REQUEST_ERROR", description |-> "rejected by the gateway"]]

\* What the order endpoint answers: an order, a 2xx body without an id,
\* a rejection.
OrderResponses ==
  { [type |-> "response", status |-> 200, data |-> [id |-> OrderId, status |-> "created"]],
    [type |-> "response", status |-> 200, data |-> [status |-> "created"]],
    [type |-> "response", status |-> 400, data |-> GatewayError],
    [type |-> "response", status |-> 401, data |-> GatewayError] }
  \cup Failures

PayStatuses == {200, 400}

RedirectUrl == <<"https", ":", "/", "/", "x", "/", "y">>

\* Entries of a `next` array: a redirect with its url, a redirect whose url
\* is empty, another action.
NextEntries ==
  { [action |-> "redirect", url |-> RedirectUrl],
    [action |-> "redirect", url |-> <<>>],
    [action |-> "otp_submit", url |-> <<"https", ":", "/", "/", "x", "/", "otp">>] }

\* The values of `next`: an array, or a value that is not an array.
NextValues ==
  { [isArray |-> TRUE, items |-> a] : a \in SeqsUpTo(NextEntries, MaxNext) }
  \cup { [isArray |-> FALSE, items |-> <<>>] }

PaymentResult == [razorpay_payment_id |-> <<"pay_1">>, status |-> "captured"]

JsonBodies ==
  { base @@ nx :
      base \in {PaymentResult, GatewayError, [status |-> "created"]},
      nx \in {EmptyObject} \cup { [next |-> v] : v \in NextValues } }

\* The document of the specification's second end-to-end scenario: the
\* redirect url between quotes.
QuotedAuthDocument == LexUrl \o LexQuote \o LexAuth \o LexQuote

Documents ==
  { Flatten(ls) : ls \in SeqsUpTo(Lexemes, MaxBody) } \cup {QuotedAuthDocument}

NoContentType == "(no content-type header)"

IsJsonType(contentType) ==
  contentType # NoContentType /\ contentType \in {"application/json"}

\* What the payment endpoint answers.
PaymentResponses ==
  { [type |-> "response", status |-> st, contentType |-> "application/json",
     malformed |-> FALSE, json |-> j] : st \in PayStatuses, j \in JsonBodies }
  \cup { [type |-> "response", status |-> st, contentType |-> "application/json",
          malformed |-> TRUE, json |-> EmptyObject] : st \in PayStatuses }
  \cup { [type |-> "response", status |-> st, contentType |-> "text/html",
          text |-> d] : st \in PayStatuses, d \in Documents }
  \cup { [type |-> "response", status |-> st, contentType |-> NoContentType,
          text |-> d] : st \in PayStatuses, d \in {<<>>, LexUrl \o LexAuth} }
  \cup Failures

\* ------------------------------------------------------------------------
\* State
\* ------------------------------------------------------------------------

VARIABLES
  env,              \* the process environment the configuration is read from
  handler,          \* the handler serving the request
  req,              \* the request: its HTTP method and its body
  pc,               \* where the handler stands
  calls,            \* the gateway calls issued so far, in order
  orderResponse,    \* what the order call returned
  paymentResponse,  \* what the payment call returned
  responses         \* the responses sent to the caller, in order

vars == <<env, handler, req, pc, calls, orderResponse, paymentResponse, responses>>

None == [type |-> "none"]

Init ==
  /\ env \in Environments
  /\ handler = "none"
  /\ req = [method |-> "none", body |-> EmptyObject]
  /\ pc = "idle"
  /\ calls = <<>>
  /\ orderResponse = None
  /\ paymentResponse = None
  /\ responses = <<>>

configs == RAZORPAY_CONFIGS(env)

\* res.status(status).json(body), which ends the handler.
Respond(status, body) ==
  /\ responses' = Append(responses, [status |-> status, body |-> body])
  /\ pc' = "done"

\* A fetch that is issued again after the first attempt.
FetchRetried(endpoint, auth, body, next) ==
  /\ calls' = calls \o << [endpoint |-> endpoint, auth |-> auth, body |-> body],
                         [endpoint |-> endpoint, auth |-> auth, body |-> body] >>
  /\ pc' = next

\* fetch(endpoint, {headers: {Authorization: auth}, body}), awaited.
Fetch(endpoint, auth, body, next) ==
  /\ calls' = Append(calls, [endpoint |-> endpoint, auth |-> auth, body |-> body])
  /\ pc' = next

Arrive(h, method, body) ==
  /\ handler' = h
  /\ req' = [method |-> method, body |-> body]

OrderEndpoint == "/v1/orders"
PaymentEndpoint == "/v1/payments/create/json"

\* ------------------------------------------------------------------------
\* Express server: POST /api/create-payment
\* ------------------------------------------------------------------------

\* A catch block that logs the error and sends nothing.
PaymentFailedSilently(message) == pc' = "done" /\ UNCHANGED responses

\* The catch block of the card and Apple Pay handlers.
PaymentFailed(message) ==
  Respond(500, [error |-> [code |-> "PAYMENT_FAILED", description |-> message]])

BadRequest(description) ==
  Respond(400, [error |-> [code |-> "BAD_REQUEST", description |-> description]])

\* The body of the order the Express handlers create.
ServerOrderBody(body, receipt, integration) ==
  Field("amount", body, "amount") @@ Field("currency", body, "currency")
    @@ [receipt |-> receipt, notes |-> [integration |-> integration]]

\* From the arrival of the request to the awaited order call.
ServerCardReceive ==
  /\ pc = "idle"
  /\ \E body \in CardBodies :
       /\ Arrive("serverCard", "POST", body)
       /\ UNCHANGED <<env, orderResponse, paymentResponse>>
       /\ IF \E k \in CardRequired : ~Truthy(body, k)
          THEN /\ BadRequest("Missing required fields: amount, currency, country, method, card")
               /\ UNCHANGED calls
          ELSE LET auth == getAuthHeader(configs, body.country)
               IN  IF ~auth.ok
                   THEN PaymentFailed(auth.message) /\ UNCHANGED calls
                   ELSE /\ Fetch(OrderEndpoint, auth.value,
                                 ServerOrderBody(body, "s2s_", "s2s_card"), "awaitOrder")
                        /\ UNCHANGED responses

\* expiry_year made four digits: '20' is put before a year of length two.
ExpiryYear(year) == IF CharLen(year) = 2 THEN <<"2", "0">> \o year ELSE year

\* A payment request that names every optional field, null where the
\* caller gave none.
ServerCardPaymentRequestWithNulls(body, order) ==
  LET card == body.card
  IN  Field("amount", body, "amount") @@ Field("currency", body, "currency")
        @@ Field("order_id", order, "id")
        @@ Field("method", body, "method")
        @@ Field("contact", body, "contact") @@ Field("email", body, "email")
        @@ [card |-> Pick(card, {"number", "name", "expiry_month", "cvv"})
                       @@ [expiry_year |-> ExpiryYear(card.expiry_year)]]
        @@ [k \in OptionalKeys |-> IF Truthy(body, k) THEN body[k] ELSE JsNull]

\* The payment request of the card handler, for a card that has its year.
ServerCardPaymentRequest(body, order) ==
  LET card == body.card
  IN  Field("amount", body, "amount") @@ Field("currency", body, "currency")
        @@ Field("order_id", order, "id")
        @@ Field("method", body, "method")
        @@ Field("contact", body, "contact") @@ Field("email", body, "email")
        @@ [card |-> Pick(card, {"number", "name", "expiry_month", "cvv"})
                       @@ [expiry_year |-> ExpiryYear(card.expiry_year)]]
        @@ [k \in {o \in OptionalKeys : Truthy(body, o)} |-> body[k]]

\* From the return of the order call to the awaited payment call.
ServerCardOrderReturns ==
  /\ pc = "awaitOrder" /\ handler = "serverCard"
  /\ \E r \in OrderResponses :
       /\ orderResponse' = r
       /\ UNCHANGED <<env, handler, req, paymentResponse>>
       /\ IF r.type = "failure"
          THEN PaymentFailed(r.message) /\ UNCHANGED calls
          ELSE IF ~IsOk(r.status)
          THEN Respond(r.status, r.data) /\ UNCHANGED calls
          ELSE IF ~Has(req.body.card, "expiry_year")
          THEN /\ PaymentFailed("Cannot read properties of undefined (reading 'length')")
               /\ UNCHANGED calls
          ELSE IF ~Has(req.body.card, "number")
          THEN /\ PaymentFailed("Cannot read properties of undefined (reading 'slice')")
               /\ UNCHANGED calls
          ELSE LET auth == getAuthHeader(configs, req.body.country)
               IN  IF ~auth.ok
                   THEN PaymentFailed(auth.message) /\ UNCHANGED calls
                   ELSE /\ Fetch(PaymentEndpoint, auth.value,
                                 ServerCardPaymentRequest(req.body, r.data), "awaitPayment")
                        /\ UNCHANGED responses

\* {...paymentData} alone: the order is left out of the response.
MergeOrderLeftOut(paymentData, order) == paymentData

\* {...paymentData, order: orderData}
MergeOrder(paymentData, order) == [order |-> order] @@ paymentData

\* The response of the Express handlers to a document in which no redirect
\* url is found.
InvalidResponse(status, description, text) ==
  Respond(status, [error |-> [code |-> "INVALID_RESPONSE",
                              description |-> description,
                              details |-> Substring0(text, 200)]])

\* The card handler's answer to a document with a redirect url.
ServerCardRedirect(url, order) ==
  [id |-> IF url = JsNull THEN JsNull ELSE MatchPaymentsSegment(url),
   status |-> "authorized",
   authentication |-> [authentication_url |-> url],
   requires_3ds |-> TRUE] @@ Field("order_id", order, "id")

\* From the return of the payment call to the response.
ServerCardPaymentReturns ==
  /\ pc = "awaitPayment" /\ handler = "serverCard"
  /\ \E r \in PaymentResponses :
       /\ paymentResponse' = r
       /\ UNCHANGED <<env, handler, req, calls, orderResponse>>
       /\ IF r.type = "failure"
          THEN PaymentFailed(r.message)
          ELSE IF IsJsonType(r.contentType)
          THEN IF r.malformed
               THEN PaymentFailed("invalid json response body")
               ELSE IF ~IsOk(r.status)
               THEN Respond(r.status, r.json)
               ELSE Respond(200, MergeOrder(r.json, orderResponse.data))
          ELSE LET authenticationUrl == MatchUrl(r.text)
               IN  IF authenticationUrl # JsNull
                   THEN Respond(200, ServerCardRedirect(authenticationUrl, orderResponse.data))
                   ELSE InvalidResponse(r.status,
                          "Received HTML response but could not extract authentication URL",
                          r.text)

\* ------------------------------------------------------------------------
\* Express server: POST /api/create-applepay-payment
\* ------------------------------------------------------------------------

ServerAppReceive ==
  /\ pc = "idle"
  /\ \E body \in AppBodies :
       /\ Arrive("serverApp", "POST", body)
       /\ UNCHANGED <<env, orderResponse, paymentResponse>>
       /\ IF \E k \in AppRequired : ~Truthy(body, k)
          THEN /\ BadRequest("Missing required fields: amount, currency, country")
               /\ UNCHANGED calls
          ELSE LET auth == getAuthHeader(configs, body.country)
               IN  IF ~auth.ok
                   THEN PaymentFailed(auth.message) /\ UNCHANGED calls
                   ELSE /\ Fetch(OrderEndpoint, auth.value,
                                 ServerOrderBody(body, "s2s_applepay_", "s2s_applepay"),
                                 "awaitOrder")
                        /\ UNCHANGED responses

\* value || fallback
OrElse(o, k, fallback) == IF Truthy(o, k) THEN o[k] ELSE fallback

ServerAppPaymentRequest(body, order) ==
  Field("amount", body, "amount") @@ Field("currency", body, "currency")
    @@ Field("order_id", order, "id")
    @@ [method  |-> "card",
        contact |-> OrElse(body, "contact", <<"+60123456789">>),
        email   |-> OrElse(body, "email", <<"applepay@example.com">>),
        app     |-> [name |-> "apple_pay"]]

ServerAppOrderReturns ==
  /\ pc = "awaitOrder" /\ handler = "serverApp"
  /\ \E r \in OrderResponses :
       /\ orderResponse' = r
       /\ UNCHANGED <<env, handler, req, paymentResponse>>
       /\ IF r.type = "failure"
          THEN PaymentFailed(r.message) /\ UNCHANGED calls
          ELSE IF ~IsOk(r.status)
          THEN Respond(r.status, r.data) /\ UNCHANGED calls
          ELSE LET auth == getAuthHeader(configs, req.body.country)
               IN  IF ~auth.ok
                   THEN PaymentFailed(auth.message) /\ UNCHANGED calls
                   ELSE /\ Fetch(PaymentEndpoint, auth.value,
                                 ServerAppPaymentRequest(req.body, r.data), "awaitPayment")
                        /\ UNCHANGED responses

\* data.next && Array.isArray(data.next), then
\* data.next.find(action => action.action === 'redirect'), then
\* redirectAction && redirectAction.url: the url to redirect to, or JsNull.
RedirectAction(data) ==
  IF ~Has(data, "next") \/ ~data.next.isArray THEN JsNull
  ELSE LET items == data.next.items
           hits == {i \in 1..Len(items) : items[i].action = "redirect"}
       IN  IF hits = {} THEN JsNull
           ELSE LET first == items[CHOOSE i \in hits : \A j \in hits : i <= j]
                IN  IF Has(first, "url") /\ first.url # <<>> THEN first.url ELSE JsNull

\* The Apple Pay handler's answer to a redirect, found in JSON or in a
\* document.
ServerAppRedirect(id, url, order) ==
  id @@ [status |-> "created", apple_pay_url |-> url, requires_apple_pay |-> TRUE,
         message |-> "Redirect user to apple_pay_url to complete payment"]
     @@ Field("order_id", order, "id")

ServerAppPaymentReturns ==
  /\ pc = "awaitPayment" /\ handler = "serverApp"
  /\ \E r \in PaymentResponses :
       /\ paymentResponse' = r
       /\ UNCHANGED <<env, handler, req, calls, orderResponse>>
       /\ IF r.type = "failure"
          THEN PaymentFailed(r.message)
          ELSE IF IsJsonType(r.contentType)
          THEN IF r.malformed
               THEN PaymentFailed("invalid json response body")
               ELSE IF RedirectAction(r.json) # JsNull
               THEN Respond(200, ServerAppRedirect(Field("id", r.json, "razorpay_payment_id"),
                                                  RedirectAction(r.json), orderResponse.data))
               ELSE IF ~IsOk(r.status)
               THEN Respond(r.status, r.json)
               ELSE Respond(200, MergeOrder(r.json, orderResponse.data))
          ELSE LET applePayUrl == MatchUrl(r.text)
               IN  IF applePayUrl # JsNull
                   THEN Respond(200, ServerAppRedirect(
                                       [id |-> MatchPaymentsSegment(applePayUrl)],
                                       applePayUrl, orderResponse.data))
                   ELSE InvalidResponse(r.status,
                          "Received HTML response but could not extract Apple Pay URL",
                          r.text)

\* ------------------------------------------------------------------------
\* Serverless function: api/create-payment.js
\* ------------------------------------------------------------------------

\* The catch block of the serverless functions.
ApiFailed(message) == Respond(500, [error |-> [description |-> message]])

\* The steps before the try block, and the credential check: TRUE when the
\* function has answered and is done.
ApiRejects(method, body) ==
  method # "POST" \/ ~ApiConfigured(configs, body)

ApiReject(method, body) ==
  IF method = "OPTIONS" THEN Respond(200, EmptyObject)
  ELSE IF method # "POST" THEN Respond(405, [error |-> "Method not allowed"])
  ELSE Respond(400, [error |-> [description |-> "Invalid country or missing credentials"]])

ApiOrderPayload(body) ==
  Field("amount", body, "amount") @@ Field("currency", body, "currency")
    @@ [payment_capture |-> 1]

ApiCardReceive ==
  /\ pc = "idle"
  /\ \E method \in HttpMethods, body \in CardBodies :
       /\ Arrive("apiCard", method, body)
       /\ UNCHANGED <<env, orderResponse, paymentResponse>>
       /\ IF ApiRejects(method, body)
          THEN ApiReject(method, body) /\ UNCHANGED calls
          ELSE /\ Fetch(OrderEndpoint, ApiCredentials(configs, body.country),
                        ApiOrderPayload(body), "awaitOrder")
               /\ UNCHANGED responses

ApiCardPaymentPayload(body, order) ==
  Pick(body, {"amount", "currency", "method", "card", "contact", "email",
              "authentication", "browser", "ip", "referer", "user_agent"})
    @@ Field("order_id", order, "id")
    @@ (IF Truthy(body, "device_fingerprint")
        THEN [device_fingerprint |-> body.device_fingerprint] ELSE EmptyObject)

ApiCardOrderReturns ==
  /\ pc = "awaitOrder" /\ handler = "apiCard"
  /\ \E r \in OrderResponses :
       /\ orderResponse' = r
       /\ UNCHANGED <<env, handler, req, paymentResponse>>
       /\ IF r.type = "failure"
          THEN ApiFailed(r.message) /\ UNCHANGED calls
          ELSE IF ~IsOk(r.status)
          THEN Respond(r.status, r.data) /\ UNCHANGED calls
          ELSE /\ Fetch(PaymentEndpoint, ApiCredentials(configs, req.body.country),
                        ApiCardPaymentPayload(req.body, r.data), "awaitPayment")
               /\ UNCHANGED responses

\* paymentIdMatch ? paymentIdMatch[1] : 'unknown'
ApiPaymentId(text) ==
  IF MatchPaymentIdKey(text) # JsNull THEN MatchPaymentIdKey(text) ELSE <<"unknown">>

ApiCardRedirect(id, url) == id @@ [authentication |-> [authentication_url |-> url]]

ApiCardPaymentReturns ==
  /\ pc = "awaitPayment" /\ handler = "apiCard"
  /\ \E r \in PaymentResponses :
       /\ paymentResponse' = r
       /\ UNCHANGED <<env, handler, req, calls, orderResponse>>
       /\ IF r.type = "failure"
          THEN ApiFailed(r.message)
          ELSE IF IsJsonType(r.contentType)
          THEN IF r.malformed
               THEN ApiFailed("invalid json response body")
               ELSE IF RedirectAction(r.json) # JsNull
               THEN Respond(200, ApiCardRedirect(Field("id", r.json, "razorpay_payment_id"),
                                                RedirectAction(r.json)))
               ELSE Respond(200, r.json)
          ELSE LET authUrl == MatchUrlQuoted(r.text)
               IN  IF authUrl # JsNull
                   THEN Respond(200, ApiCardRedirect([id |-> ApiPaymentId(r.text)], authUrl))
                   ELSE Respond(500, [error |-> [description |-> "Failed to parse payment response"]])

\* ------------------------------------------------------------------------
\* Serverless function: the Apple Pay payment
\* ------------------------------------------------------------------------

\* The function names fetch without importing it: the call goes out where
\* the runtime has a global fetch and throws a ReferenceError where it has
\* none.
ApiAppReceive ==
  /\ pc = "idle"
  /\ \E method \in HttpMethods, body \in AppBodies, globalFetch \in BOOLEAN :
       /\ Arrive("apiApp", method, body)
       /\ UNCHANGED <<env, orderResponse, paymentResponse>>
       /\ IF ApiRejects(method, body)
          THEN ApiReject(method, body) /\ UNCHANGED calls
          ELSE IF ~globalFetch
          THEN ApiFailed("fetch is not defined") /\ UNCHANGED calls
          ELSE /\ Fetch(OrderEndpoint, ApiCredentials(configs, body.country),
                        ApiOrderPayload(body), "awaitOrder")
               /\ UNCHANGED responses

ApiAppPaymentPayload(body, order) ==
  Pick(body, {"amount", "currency", "contact", "email"})
    @@ Field("order_id", order, "id")
    @@ [method |-> "card", app |-> [name |-> "apple_pay"]]

ApiAppOrderReturns ==
  /\ pc = "awaitOrder" /\ handler = "apiApp"
  /\ \E r \in OrderResponses :
       /\ orderResponse' = r
       /\ UNCHANGED <<env, handler, req, paymentResponse>>
       /\ IF r.type = "failure"
          THEN ApiFailed(r.message) /\ UNCHANGED calls
          ELSE IF ~IsOk(r.status)
          THEN Respond(r.status, r.data) /\ UNCHANGED calls
          ELSE /\ Fetch(PaymentEndpoint, ApiCredentials(configs, req.body.country),
                        ApiAppPaymentPayload(req.body, r.data), "awaitPayment")
               /\ UNCHANGED responses

ApiAppRedirect(id, url) == id @@ [apple_pay_url |-> url, requires_apple_pay |-> TRUE]

ApiAppPaymentReturns ==
  /\ pc = "awaitPayment" /\ handler = "apiApp"
  /\ \E r \in PaymentResponses :
       /\ paymentResponse' = r
       /\ UNCHANGED <<env, handler, req, calls, orderResponse>>
       /\ IF r.type = "failure"
          THEN ApiFailed(r.message)
          ELSE IF IsJsonType(r.contentType)
          THEN IF r.malformed
               THEN ApiFailed("invalid json response body")
               ELSE IF RedirectAction(r.json) # JsNull
               THEN Respond(200, ApiAppRedirect(Field("id", r.json, "razorpay_payment_id"),
                                               RedirectAction(r.json)))
               ELSE Respond(200, r.json)
          ELSE LET applePayUrl == MatchUrlQuoted(r.text)
               IN  IF applePayUrl # JsNull
                   THEN Respond(200, ApiAppRedirect([id |-> ApiPaymentId(r.text)], applePayUrl))
                   ELSE Respond(500, [error |-> [description |-> "Failed to parse Apple Pay response"]])

\* ------------------------------------------------------------------------
\* Specifications
\* ------------------------------------------------------------------------

\* ------------------------------------------------------------------------
\* Express server: POST /api/validate-apple-merchant
\* ------------------------------------------------------------------------

MerchantRequired == {"validationURL", "domain", "amount", "currency"}

\* Bodies of POST /api/validate-apple-merchant.
MerchantBodies ==
  { Without([validationURL |-> <<"https", ":", "/", "/", "apple", ".", "example",
                                "/", "startSession">>,
             domain |-> <<"shop", ".", "example">>,
             amount |-> 1000, currency |-> "INR"] @@ name,
            missing) :
      name \in {EmptyObject, [displayName |-> <<"Shop">>]},
      missing \in AtMost(MerchantRequired, MaxMissing) }

MerchantEndpoint == "/v1/payments/create/ajax"

\* The merchant session the gateway hands out, opaque to the server.
SessionData ==
  [merchantSessionIdentifier |-> <<"SSH_1">>, signature |-> <<"3080">>,
   displayName |-> <<"Shop">>]

\* What the create/ajax endpoint answers.
MerchantResponses ==
  { [type |-> "response", status |-> st, contentType |-> "application/json",
     malformed |-> FALSE, json |-> j] :
      st \in PayStatuses,
      j \in { [data |-> [session_data |-> SessionData]],
              [data |-> [session_data |-> SessionData], status |-> "created"],
              [data |-> EmptyObject],
              EmptyObject,
              GatewayError } }
  \cup Failures

\* The request the handler sends for a merchant session.
ValidationRequest(body) ==
  [method |-> "app", amount |-> body.amount,
   contact |-> <<"+910000000000">>, email |-> <<"applepay@example.com">>,
   currency |-> body.currency, app |-> [name |-> "apple_pay"],
   initiative_context_url |-> body.domain,
   merchant_validation_url |-> body.validationURL, save |-> 0]

\* The catch block of the merchant validation handler.
ValidationFailed(message) ==
  Respond(500, [error |-> [code |-> "VALIDATION_FAILED", description |-> message]])

\* data.error?.description || fallback
ErrorDescription(data, fallback) ==
  IF Has(data, "error") /\ Has(data.error, "description")
  THEN data.error.description ELSE fallback

\* From the arrival of the request to the awaited create/ajax call;
\* getAuthHeader() is called without a country and so with 'MY'.
ServerMerchantReceive ==
  /\ pc = "idle"
  /\ \E body \in MerchantBodies :
       /\ Arrive("serverMerchant", "POST", body)
       /\ UNCHANGED <<env, orderResponse, paymentResponse>>
       /\ IF \E k \in MerchantRequired : ~Truthy(body, k)
          THEN /\ BadRequest("Missing required fields: validationURL, domain, amount, currency")
               /\ UNCHANGED calls
          ELSE LET auth == getAuthHeader(configs, "MY")
               IN  IF ~auth.ok
                   THEN ValidationFailed(auth.message) /\ UNCHANGED calls
                   ELSE /\ Fetch(MerchantEndpoint, auth.value,
                                 ValidationRequest(body), "awaitMerchant")
                        /\ UNCHANGED responses

\* From the return of the create/ajax call to the response.
ServerMerchantReturns ==
  /\ pc = "awaitMerchant" /\ handler = "serverMerchant"
  /\ \E r \in MerchantResponses :
       /\ paymentResponse' = r
       /\ UNCHANGED <<env, handler, req, calls, orderResponse>>
       /\ IF r.type = "failure"
          THEN ValidationFailed(r.message)
          ELSE IF ~IsOk(r.status)
          THEN ValidationFailed(ErrorDescription(r.json, "Merchant validation failed"))
          ELSE IF ~Has(r.json, "data") \/ ~Has(r.json.data, "session_data")
          THEN ValidationFailed("No merchant session received from Razorpay")
          ELSE Respond(200, r.json.data.session_data)

\* ------------------------------------------------------------------------
\* Health checks
\* ------------------------------------------------------------------------

\* new Date().toISOString()
Timestamps == {"2026-01-01T00:00:00.000Z", "2026-01-01T00:00:01.000Z"}

\* A health entry that puts the key secret where the key id belongs.
HealthEntryLeaking(config) ==
  [configured |-> config.keySecret # "", keyId |-> config.keySecret,
   currency |-> config.currency]

\* What GET /health of the Express server tells about one country.
HealthEntry(config) ==
  [configured |-> config.keySecret # "", keyId |-> config.keyId,
   currency |-> config.currency]

\* GET /health of the Express server.
ServerHealth ==
  /\ pc = "idle"
  /\ \E now \in Timestamps :
       /\ Arrive("serverHealth", "GET", EmptyObject)
       /\ Respond(200, [status |-> "ok", timestamp |-> now,
                        countries |-> [c \in KnownCountries |-> HealthEntry(configs[c])]])
       /\ UNCHANGED <<env, calls, orderResponse, paymentResponse>>

\* The serverless health function, whatever the HTTP method.
ApiHealth ==
  /\ pc = "idle"
  /\ \E now \in Timestamps, method \in HttpMethods, vercel \in BOOLEAN :
       /\ Arrive("apiHealth", method, EmptyObject)
       /\ Respond(200,
            [status |-> "ok", message |-> "Razorpay S2S Payment API",
             timestamp |-> now,
             environment |-> IF vercel THEN "vercel" ELSE "local",
             configured_geographies |->
               [c \in KnownCountries |-> c \in env.ids /\ c \in env.secrets]])
       /\ UNCHANGED <<env, calls, orderResponse, paymentResponse>>

\* The payment handlers of the Express server.
ServerNext ==
  \/ ServerCardReceive \/ ServerCardOrderReturns \/ ServerCardPaymentReturns
  \/ ServerAppReceive \/ ServerAppOrderReturns \/ ServerAppPaymentReturns

\* The serverless functions.
ApiNext ==
  \/ ApiCardReceive \/ ApiCardOrderReturns \/ ApiCardPaymentReturns
  \/ ApiAppReceive \/ ApiAppOrderReturns \/ ApiAppPaymentReturns

\* The merchant validation and the health checks.
SupportNext ==
  \/ ServerMerchantReceive \/ ServerMerchantReturns
  \/ ServerHealth \/ ApiHealth

Next == ServerNext \/ ApiNext \/ SupportNext

Spec == Init /\ [][Next]_vars

ServerSpec == Init /\ [][ServerNext]_vars

\* An awaited gateway call returns or fails, and the handler then runs on.
FairServerSpec == ServerSpec /\ WF_vars(ServerNext)

\* ------------------------------------------------------------------------
\* Vocabulary of the claims
\* ------------------------------------------------------------------------

Done == pc = "done"

\* The one response of a finished request.
Sent == responses[1]

IsPaymentCall(c) == c.endpoint = PaymentEndpoint
IsOrderCall(c) == c.endpoint = OrderEndpoint

OrderSucceeded == orderResponse.type = "response" /\ IsOk(orderResponse.status)
OrderRejected == orderResponse.type = "response" /\ ~IsOk(orderResponse.status)

\* The payment call returned parsed JSON / a document.
PaymentJson ==
  /\ paymentResponse.type = "response"
  /\ IsJsonType(paymentResponse.contentType)
  /\ ~paymentResponse.malformed
PaymentDocument ==
  /\ paymentResponse.type = "response"
  /\ ~IsJsonType(paymentResponse.contentType)

\* The urls of the entries of data.next whose action is "redirect" and
\* whose url is not empty.
RedirectEntryUrls(data) ==
  IF ~Has(data, "next") \/ ~data.next.isArray THEN {}
  ELSE {data.next.items[i].url : i \in {j \in 1..Len(data.next.items) :
           /\ data.next.items[j].action = "redirect"
           /\ data.next.items[j].url # <<>>}}

\* Whether a document holds the pattern url= at all.
HoldsUrlPattern(t) == \E i \in 1..Len(t) - 1 : t[i] = "url" /\ t[i + 1] = "="

\* The redirect url a response body carries, under the field name of the
\* flow that sent it; JsNull when it carries none.
SentRedirectUrl ==
  IF handler \in {"serverCard", "apiCard"}
  THEN IF Has(Sent.body, "authentication") THEN Sent.body.authentication.authentication_url
       ELSE JsNull
  ELSE IF Has(Sent.body, "apple_pay_url") THEN Sent.body.apple_pay_url ELSE JsNull

\* The error code of a response body, "" when it has none.
SentErrorCode ==
  IF Sent.status # 405 /\ Has(Sent.body, "error") /\ Has(Sent.body.error, "code")
  THEN Sent.body.error.code ELSE ""

\* A card object that lacks one of its fields.
CardIncomplete(card) ==
  \E k \in {"number", "name", "expiry_month", "expiry_year", "cvv"} : ~Has(card, k)

\* A region that is unknown, or lacks its identifier or its secret.
RegionUnconfigured(country) ==
  \/ country \notin KnownCountries
  \/ configs[country].keyId = ""
  \/ configs[country].keySecret = ""

\* The request is a POST that names a fully configured region.
RegionConfigured ==
  /\ req.method = "POST"
  /\ Has(req.body, "country")
  /\ ~RegionUnconfigured(req.body.country)

\* The request is a POST with every field its handler requires; a card
\* request has a complete card.
RequestComplete ==
  /\ req.method = "POST"
  /\ \A k \in (IF handler \in {"serverCard", "apiCard"} THEN CardRequired ELSE AppRequired) :
       Has(req.body, k)
  /\ handler \in {"serverCard", "apiCard"} => ~CardIncomplete(req.body.card)

\* The order call returned a 2xx status and an order with its id.
OrderCreated == OrderSucceeded /\ Has(orderResponse.data, "id")

\* ------------------------------------------------------------------------
\* Claims
\* ------------------------------------------------------------------------

\* C1: a payment-creation call is issued only after the request's order
\* call returned a 2xx status carrying an order identifier, and never after
\* a non-2xx order response.  (Stated for the requests that are complete.)
C1_PaymentOnlyAfterIdentifiedOrder ==
  ( handler \in {"serverCard", "serverApp", "apiCard"} /\ RequestComplete ) =>
    /\ (\E i \in DOMAIN calls : IsPaymentCall(calls[i])) =>
         /\ OrderSucceeded
         /\ Has(orderResponse.data, "id")
         /\ IsOrderCall(calls[1])
    /\ OrderRejected => \A i \in DOMAIN calls : ~IsPaymentCall(calls[i])

\* C2: a card payment request that misses amount, currency, region, method
\* or a card field ends with 400 BAD_REQUEST, and no gateway call is made
\* for it.  (Stated for the requests whose region, when given, is fully
\* configured.)
C2_MissingFieldRejectedLocally ==
  ( /\ handler \in {"serverCard", "apiCard"}
    /\ req.method = "POST"
    /\ Has(req.body, "country") => ~RegionUnconfigured(req.body.country)
    /\ \/ \E k \in CardRequired : ~Has(req.body, k)
       \/ Has(req.body, "card") /\ CardIncomplete(req.body.card) ) =>
    /\ calls = <<>>
    /\ Done => Sent.status = 400 /\ SentErrorCode = "BAD_REQUEST"

\* C3: a payment request (card or app) whose region is unknown or not
\* fully configured ends with an HTTP 400 and no gateway call.  (Stated
\* for the requests that are otherwise complete.)
C3_UnconfiguredRegionRejectedLocally ==
  ( /\ handler # "none"
    /\ RequestComplete
    /\ RegionUnconfigured(req.body.country) ) =>
    /\ calls = <<>>
    /\ Done => Sent.status = 400

\* C4: a JSON payment response whose `next` array holds a redirect entry
\* with a non-empty url is answered as RedirectRequired, with that url and
\* the body's payment identifier, whatever the response's status.  (Stated
\* for the requests whose order was created.)
C4_JsonRedirectTakesPrecedence ==
  ( /\ handler \in {"serverCard", "serverApp", "apiCard"}
    /\ Done
    /\ RequestComplete
    /\ OrderCreated
    /\ PaymentJson
    /\ RedirectEntryUrls(paymentResponse.json) # {} ) =>
    /\ Sent.status = 200
    /\ SentRedirectUrl \in RedirectEntryUrls(paymentResponse.json)
    /\ Has(paymentResponse.json, "razorpay_payment_id") =>
         /\ Has(Sent.body, "id")
         /\ Sent.body.id = paymentResponse.json.razorpay_payment_id

\* The path segment of url that follows the first "payments/": up to the
\* next slash or the query string; the text "unknown" when there is none.
PathPaymentId(url) ==
  LET hits == {i \in 1..Len(url) : /\ i + 2 <= Len(url)
                                   /\ url[i] = "payments" /\ url[i + 1] = "/"
                                   /\ url[i + 2] \notin {"/", "?"}}
  IN  IF hits = {} THEN <<"unknown">>
      ELSE LET i == CHOOSE j \in hits : \A k \in hits : j <= k
           IN  RunNot(RunNot(Rest(url, i + 2), "/"), "?")

\* The redirect target of a document: the text that follows its first
\* url= up to the next quote; JsNull when there is none.
RedirectTarget(t) ==
  LET hits == {i \in 1..Len(t) : /\ i + 2 <= Len(t)
                                 /\ t[i] = "url" /\ t[i + 1] = "="
                                 /\ t[i + 2] # Quote}
  IN  IF hits = {} THEN JsNull
      ELSE RunNot(Rest(t, 2 + CHOOSE j \in hits : \A k \in hits : j <= k), Quote)

\* C5: a document (non-JSON response) that holds a url= redirect target is
\* answered as RedirectRequired with that url, and with the path segment
\* after "payments/" (without the query string) as payment id, "unknown"
\* when there is none.  (Stated for the requests whose order was created.)
C5_DocumentRedirectCarriesPathId ==
  ( /\ handler \in {"serverCard", "apiCard"}
    /\ Done
    /\ RequestComplete
    /\ OrderCreated
    /\ PaymentDocument
    /\ RedirectTarget(paymentResponse.text) # JsNull ) =>
    /\ Sent.status = 200
    /\ SentRedirectUrl = RedirectTarget(paymentResponse.text)
    /\ Has(Sent.body, "id")
    /\ Sent.body.id = PathPaymentId(RedirectTarget(paymentResponse.text))

\* C6: a gateway failure at either step (a non-2xx order response; a
\* non-2xx JSON payment response without a redirect entry) is answered
\* with the gateway's status code and the gateway's payload.
C6_GatewayFailureVerbatim ==
  ( handler \in {"serverCard", "apiCard"} /\ Done /\ RequestComplete ) =>
    /\ OrderRejected =>
         Sent = [status |-> orderResponse.status, body |-> orderResponse.data]
    /\ ( /\ OrderCreated
         /\ PaymentJson
         /\ ~IsOk(paymentResponse.status)
         /\ RedirectEntryUrls(paymentResponse.json) = {} ) =>
         Sent = [status |-> paymentResponse.status, body |-> paymentResponse.json]

\* C7: a document (non-JSON response) that holds no url= pattern is
\* answered with a 500-class error that embeds a truncated copy of the
\* document, whatever the gateway's status.
C7_UnparseableIsServerError ==
  ( /\ handler \in {"serverCard", "apiCard"}
    /\ Done
    /\ RequestComplete
    /\ OrderCreated
    /\ PaymentDocument
    /\ ~HoldsUrlPattern(paymentResponse.text) ) =>
    /\ Sent.status >= 500 /\ Sent.status <= 599
    /\ Has(Sent.body, "error")
    /\ Has(Sent.body.error, "details")
    /\ \E n \in {200, 500} : Sent.body.error.details = Substring0(paymentResponse.text, n)

Contains(t, sub) ==
  \E i \in 1..(Len(t) - Len(sub) + 1) : SubSeq(t, i, i + Len(sub) - 1) = sub

Scenario2Response ==
  [id |-> <<"pay_2">>, status |-> "authorized", order_id |-> OrderId,
   authentication |-> [authentication_url |-> LexAuth], requires_3ds |-> TRUE]

\* C9: in the card flow, when the order is {id: "order_abc"} and the payment
\* call returns a document containing
\* url="https://api.x/payments/pay_2/authenticate", the response is exactly
\* the second scenario's; and every redirect response of the card flow
\* carries the payment id, status "authorized", the order id, the url and
\* requires_3ds = true.
C9_CardRedirectResponse ==
  ( /\ handler \in {"serverCard", "apiCard"}
    /\ Done
    /\ RequestComplete
    /\ OrderCreated
    /\ PaymentDocument ) =>
    /\ Contains(paymentResponse.text, QuotedAuthDocument) =>
         Sent = [status |-> 200, body |-> Scenario2Response]
    /\ (Sent.status = 200 /\ Has(Sent.body, "authentication")) =>
         /\ Has(Sent.body, "id")
         /\ Has(Sent.body, "status") /\ Sent.body.status = "authorized"
         /\ Has(Sent.body, "order_id") /\ Sent.body.order_id = orderResponse.data.id
         /\ Has(Sent.body, "requires_3ds") /\ Sent.body.requires_3ds

\* The cases of a response of the Express server: a completed payment, a
\* required redirect, an explicit error (the unparseable document among
\* them).
IsCompleted(r) == r.status = 200 /\ Has(r.body, "order")
IsRedirectRequired(r) ==
  r.status = 200 /\ (Has(r.body, "requires_3ds") \/ Has(r.body, "requires_apple_pay"))
IsExplicitError(r) == r.status >= 400 \/ Has(r.body, "error")

\* C10: every payment request of the Express server, each awaited gateway
\* call returning or failing, gets exactly one response in the end, never
\* two, and the response is a normalized outcome or an explicit error.
C10_ExactlyOneResponse ==
  /\ [](Len(responses) <= 1)
  /\ [](Done => /\ Len(responses) = 1
                /\ IsCompleted(Sent) \/ IsRedirectRequired(Sent) \/ IsExplicitError(Sent))
  /\ (pc \in {"awaitOrder", "awaitPayment"}) ~> Done

\* A request that went through both gateway calls and was answered once.
C10_Witness ==
  /\ handler = "serverApp"
  /\ Done
  /\ Len(calls) = 2
  /\ Len(responses) = 1
  /\ IsRedirectRequired(Sent)

\* The four handlers that take a payment request.
PaymentHandlers == {"serverCard", "serverApp", "apiCard", "apiApp"}

\* The positions of the order calls and of the payment calls of a request.
OrderCalls == {i \in DOMAIN calls : IsOrderCall(calls[i])}
PaymentCalls == {i \in DOMAIN calls : IsPaymentCall(calls[i])}

\* C11: a request issues at most one order call and at most one payment
\* call, the order call before the payment call; after an order call that
\* failed or was rejected nothing more is called, and after the payment
\* call returned, whatever it returned, nothing more is called.
C11_NoRetryOrderThenPayment ==
  handler \in PaymentHandlers =>
    /\ Cardinality(OrderCalls) <= 1
    /\ Cardinality(PaymentCalls) <= 1
    /\ \A j \in PaymentCalls : \E i \in OrderCalls : i < j
    /\ (orderResponse.type = "failure" \/ OrderRejected) => Len(calls) = 1
    /\ paymentResponse.type # "none" => Len(calls) = 2

\* The payment call of a serverless Apple Pay request failed in transport,
\* after its order call, and the request was answered.
C11_Witness ==
  /\ handler = "apiApp"
  /\ Done
  /\ OrderSucceeded
  /\ paymentResponse.type = "failure"
  /\ OrderCalls = {1} /\ PaymentCalls = {2}

\* The credentials a handler resolved for its request: those its first
\* gateway call carries.
ResolvedCredentials == IF calls = <<>> THEN {} ELSE {calls[1].auth}

\* C12: credentials are resolved for a region if and only if the region is
\* known and both its key id and its key secret are non-empty; for every
\* other region the resolution fails and no credentials are produced.
C12_ResolvedIffFullyConfigured ==
  ( /\ handler \in {"serverCard", "serverApp", "apiCard"}
    /\ pc # "idle"
    /\ RequestComplete ) =>
    /\ \A c \in Countries :
         /\ getAuthHeader(configs, c).ok <=> ~RegionUnconfigured(c)
         /\ getConfig(configs, c).ok <=> ~RegionUnconfigured(c)
    /\ ResolvedCredentials # {} <=> ~RegionUnconfigured(req.body.country)
    /\ \A a \in ResolvedCredentials : a.keyId # "" /\ a.keySecret # ""

\* The keys of the response bodies, by what their values are: a string, a
\* text, an object; and the keys that hold booleans.
StringFields == {"code", "description", "status", "message", "timestamp",
                 "environment", "keyId", "currency"}
TextFields == {"id", "order_id", "authentication_url", "apple_pay_url",
               "razorpay_payment_id", "details", "merchantSessionIdentifier",
               "signature", "displayName"}
ObjectFields == {"error", "authentication", "order", "countries"} \cup KnownCountries
FlagFields == {"requires_3ds", "requires_apple_pay", "configured",
               "configured_geographies"}

\* Every string a response body holds, at any depth.
RECURSIVE Strings(_)
Strings(o) ==
  UNION { IF k \in StringFields THEN {o[k]}
          ELSE IF k \in TextFields THEN {o[k][i] : i \in DOMAIN o[k]}
          ELSE IF k \in ObjectFields THEN Strings(o[k])
          ELSE IF k = "next" /\ o[k].isArray
          THEN UNION { {o[k].items[i].action}
                         \cup {o[k].items[i].url[j] : j \in DOMAIN o[k].items[i].url} :
                       i \in DOMAIN o[k].items }
          ELSE {} : k \in DOMAIN o }

\* Whether every key of a response body, at any depth, is one of the keys
\* above, so that Strings overlooks none of its values.
RECURSIVE Surveyed(_)
Surveyed(o) ==
  \A k \in DOMAIN o :
    /\ k \in StringFields \cup TextFields \cup ObjectFields \cup FlagFields \cup {"next"}
    /\ k \in ObjectFields => Surveyed(o[k])

\* The body of the 405 response holds its error as one string.
ResponseStrings(r) == IF r.status = 405 THEN {r.body.error} ELSE Strings(r.body)

\* Whether string s occurs in string t.
Occurs(s, t) ==
  \E i \in 1..(Len(t) - Len(s) + 1) : SubSeq(t, i, i + Len(s) - 1) = s

\* The key secrets that are set, and those that can be.
Secrets == {configs[c].keySecret : c \in KnownCountries} \ {""}
AllSecrets == {KeySecretOf(c) : c \in KnownCountries}

\* The atoms of the gateway's documents and of their truncated copies, and
\* those of them that hold a key secret: settled once, for every state.
DocumentAtoms ==
  UNION { {l[i] : i \in DOMAIN l} : l \in Lexemes }
    \cup { CutAtom(Filler, n) : n \in 1..(Len(Filler) - 1) }
LeakingDocumentAtoms ==
  { a \in DocumentAtoms : \E k \in AllSecrets : Occurs(k, a) }

\* Whether string s holds a key secret that is set.
HoldsSecret(s) ==
  IF s \in DocumentAtoms THEN s \in LeakingDocumentAtoms
  ELSE \E k \in Secrets : Occurs(k, s)

C14_ExpiryYearFourDigits ==
  ( handler \in {"serverCard", "apiCard"} /\ RequestComplete ) =>
    \A i \in PaymentCalls :
      LET given == req.body.card.expiry_year
          sent  == calls[i].body.card.expiry_year
      IN  /\ CharLen(given) = 2 => sent = <<"2", "0">> \o given
          /\ CharLen(given) = 4 => sent = given
          /\ CharLen(sent) # 2

\* The one call of a merchant validation, and what it returned.
MerchantAnswered ==
  handler = "serverMerchant" /\ Done /\ paymentResponse.type = "response"

\* Whether the gateway's answer holds the session: data.data.session_data.
HoldsSession(data) == Has(data, "data") /\ Has(data.data, "session_data")

\* C15: a merchant validation issues at most one gateway call, exactly one
\* when it gets as far as the gateway, and never an order call; when the
\* gateway's 2xx answer holds the session, the session is returned as it
\* is; when it does not, the answer is a validation error of the 400
\* class, not a success.
C15_MerchantSessionOrValidationError ==
  handler = "serverMerchant" =>
    /\ Len(calls) <= 1
    /\ OrderCalls = {}
    /\ paymentResponse.type # "none" => Len(calls) = 1
    /\ ( MerchantAnswered /\ IsOk(paymentResponse.status)
           /\ HoldsSession(paymentResponse.json) ) =>
         Sent = [status |-> 200, body |-> paymentResponse.json.data.session_data]
    /\ ( MerchantAnswered /\ IsOk(paymentResponse.status)
           /\ ~HoldsSession(paymentResponse.json) ) =>
         /\ Sent.status >= 400 /\ Sent.status <= 499
         /\ Has(Sent.body, "error")

Outcome(case, id, url) == [case |-> case, id |-> id, url |-> url]

\* The case the Apple Pay handler of the Express server makes of a parsed
\* payment response, with the payment id and the redirect url it takes
\* from it.
AppOutcome(r) ==
  IF IsJsonType(r.contentType)
  THEN IF RedirectAction(r.json) # JsNull
       THEN Outcome("RedirectRequired",
                    IF Has(r.json, "razorpay_payment_id")
                    THEN r.json.razorpay_payment_id ELSE JsNull,
                    RedirectAction(r.json))
       ELSE IF ~IsOk(r.status) THEN Outcome("GatewayFailure", JsNull, JsNull)
       ELSE Outcome("Completed", JsNull, JsNull)
  ELSE IF MatchUrl(r.text) # JsNull
       THEN Outcome("RedirectRequired", MatchPaymentsSegment(MatchUrl(r.text)),
                    MatchUrl(r.text))
       ELSE Outcome("Unparseable", JsNull, JsNull)

\* The case a response of the Express server stands for, read off the
\* response, with the payment id and the redirect url it carries.
SentOutcome ==
  IF Sent.status = 200 /\ IsRedirectRequired(Sent)
  THEN Outcome("RedirectRequired",
               IF Has(Sent.body, "id") THEN Sent.body.id ELSE JsNull,
               SentRedirectUrl)
  ELSE IF SentErrorCode = "INVALID_RESPONSE" THEN Outcome("Unparseable", JsNull, JsNull)
  ELSE IF IsCompleted(Sent) THEN Outcome("Completed", JsNull, JsNull)
  ELSE Outcome("GatewayFailure", JsNull, JsNull)

\* C16: the card handler and the Apple Pay handler of the Express server
\* make the same case of every parsed payment response, with the same
\* payment id and the same redirect url: the response either handler sends
\* stands for the outcome the Apple Pay handler's rules give.
C16_FlowsNormalizeAlike ==
  ( /\ handler \in {"serverCard", "serverApp"}
    /\ Done
    /\ RequestComplete
    /\ OrderCreated
    /\ PaymentJson \/ PaymentDocument ) =>
    SentOutcome = AppOutcome(paymentResponse)

Placeholder(k) ==
  IF k = "contact" THEN <<"+60123456789">> ELSE <<"applepay@example.com">>

\* C18: in the Apple Pay flow the payment request carries the caller's
\* contact and email whenever the caller supplied them, whatever their
\* value; a placeholder is put in only for a field the caller left out.
C18_PlaceholdersOnlyForAbsentFields ==
  ( handler \in {"serverApp", "apiApp"} /\ OrderCreated ) =>
    \A i \in PaymentCalls : \A k \in {"contact", "email"} :
      /\ Has(req.body, k) =>
           Has(calls[i].body, k) /\ calls[i].body[k] = req.body[k]
      /\ (Has(calls[i].body, k) /\ calls[i].body[k] = Placeholder(k)) =>
           ~Has(req.body, k)

\* C19: in the card flow a request whose order was created goes on to its
\* payment call: once the order call has returned a 2xx order, the request
\* is not answered without a payment call having been issued for it.
C19_CreatedOrderGetsPaymentAttempt ==
  ( /\ handler \in {"serverCard", "apiCard"}
    /\ OrderCalls # {}
    /\ OrderCreated ) =>
    PaymentCalls # {}
=============================================================================
